---- MODULE Spec2Model ----
(***************************************************************************)
(* SPKT: an IRC-2 style token ledger (src/SPKT/main.py) whose public       *)
(* transfer is disabled and whose balances move only through the           *)
(* treasurer-gated and owner-gated entry points.                           *)
(*                                                                         *)
(* One step of the model is one external call of the SCORE, or one move of *)
(* a recipient's tokenFallback while a transfer waits for it.  The host    *)
(* (iconservice) runs one transaction at a time and discards every write   *)
(* of a transaction that reverts; `saved` is the database the host would   *)
(* restore, `stack` the transfers whose tokenFallback has not returned.    *)
(***************************************************************************)
EXTENDS Integers, Sequences, FiniteSets, TLC

\* ------------------------------------------------------------------ bounds
\* mint is explored while total_supply stays within -MaxDebt .. MaxSupply
MaxSupply == 2
MaxDebt == 1
\* value arguments range over -1 .. MaxValue
MaxValue == 1
\* pending tokenFallback calls (nesting of transfers)
MaxDepth == 1
\* calls that the tokenFallback handlers of one transaction make back into the SCORE
MaxNested == 1

\* ---------------------------------------------------------------- domains
Contracts == {"cx1"}
Address == {"hx1", "hx2"} \cup Contracts
NoAddr == "None"
Values == (0 - 1) .. MaxValue
DataArgs == {"0x01"}
UpdateNames == {"Spark", "Other"}
\* the deployer is an externally owned account
Deployers == {"hx1"}
FirstTreasurer == "hx2"
FirstTreasury == "hx1"

\* Address.is_contract
is_contract(a) == a \in Contracts

VARIABLES
    installed,      \* on_install has completed
    owner,          \* IconScoreBase.owner: the deployer, fixed by the host
    name,           \* VarDB 'name'
    symbol,         \* VarDB 'symbol'
    decimals,       \* VarDB 'decimals'
    total_supply,   \* VarDB 'total_supply'
    balances,       \* DictDB 'balances' (absent keys read 0)
    treasurer,      \* VarDB 'treasurer'
    treasury,       \* VarDB 'treasury'
    saved,          \* the database as of the start of the running transaction
    stack,          \* transfers waiting for their recipient's tokenFallback
    emitted,        \* what the last step sent out: a tokenFallback call or a Transfer event
    nested,         \* calls made so far from inside tokenFallback in this transaction
    last            \* the call that the last step ran, and how it ended

db == <<name, symbol, decimals, total_supply, balances, treasurer, treasury>>
vars == <<installed, owner, name, symbol, decimals, total_supply, balances,
          treasurer, treasury, saved, stack, emitted, nested, last>>

\* The database as one value
Snapshot ==
    [name |-> name, symbol |-> symbol, decimals |-> decimals,
     total_supply |-> total_supply, balances |-> balances,
     treasurer |-> treasurer, treasury |-> treasury]

SetDb(s) ==
    /\ name' = s.name
    /\ symbol' = s.symbol
    /\ decimals' = s.decimals
    /\ total_supply' = s.total_supply
    /\ balances' = s.balances
    /\ treasurer' = s.treasurer
    /\ treasury' = s.treasury

\* What a step ran: the entry point, msg.sender, and how the call ended
Call(op, sender) == [op |-> op, sender |-> sender, result |-> "pending"]

NoCall == [op |-> "none", sender |-> NoAddr, result |-> "ok"]

\* msg.sender of a call: anyone at top level, the notified SCORE inside tokenFallback
Senders == IF stack = <<>> THEN Address ELSE {stack[Len(stack)].to}

\* a call from inside tokenFallback counts against MaxNested
CountNested ==
    /\ stack # <<>> => nested < MaxNested
    /\ nested' = IF stack = <<>> THEN 0 ELSE nested + 1

\* A failure anywhere in the transaction: catch_error turns the exception into
\* revert, and the host drops every write, event and pending call of the transaction.
Revert(rec, err) ==
    /\ SetDb(saved)
    /\ stack' = <<>>
    /\ emitted' = <<>>
    /\ nested' = 0
    /\ last' = [rec EXCEPT !.result = err]
    /\ UNCHANGED <<installed, owner, saved>>

\* A call that returns normally with database s, having emitted `entries`
Return(rec, s, entries) ==
    /\ SetDb(s)
    /\ emitted' = entries
    /\ CountNested
    /\ saved' = IF stack = <<>> THEN s ELSE saved
    /\ last' = [rec EXCEPT !.result = "ok"]
    /\ UNCHANGED <<installed, owner, stack>>

Init ==
    /\ installed = FALSE
    /\ owner = NoAddr
    /\ name = ""
    /\ symbol = ""
    /\ decimals = 0
    /\ total_supply = 0
    /\ balances = [a \in Address |-> 0]
    /\ treasurer = NoAddr
    /\ treasury = NoAddr
    /\ saved = [name |-> "", symbol |-> "", decimals |-> 0, total_supply |-> 0,
                balances |-> [a \in Address |-> 0],
                treasurer |-> NoAddr, treasury |-> NoAddr]
    /\ stack = <<>>
    /\ emitted = <<>>
    /\ nested = 0
    /\ last = NoCall

\* --------------------------------------------------------------- installation
\* _initialSupply * 10 ** _decimals, one factor of ten at a time
RECURSIVE Scale(_, _)
Scale(s, d) == IF d = 0 THEN s ELSE Scale(s * 10, d - 1)

\* faulty variant: 21 decimals are refused
DecimalsTooLarge_at21(_decimals) == _decimals >= 21

DecimalsTooLarge(_decimals) == _decimals > 21

on_install(sender, _name, _symbol, _decimals, _initialSupply, _treasurer, _treasury) ==
    LET rec == Call("on_install", sender)
    IN
    /\ ~installed
    /\ IF _initialSupply < 0
       THEN Revert(rec, "Initial supply cannot be less than zero")
       ELSE IF _decimals < 0
       THEN Revert(rec, "Decimals cannot be less than zero")
       ELSE IF DecimalsTooLarge(_decimals)
       THEN Revert(rec, "Decimals cannot be more than 21")
       ELSE LET supply == Scale(_initialSupply, _decimals)
                s == [name |-> _name, symbol |-> _symbol, decimals |-> _decimals,
                      total_supply |-> supply,
                      balances |-> [balances EXCEPT ![sender] = supply],
                      treasurer |-> _treasurer, treasury |-> _treasury]
            IN
            /\ SetDb(s)
            /\ installed' = TRUE
            /\ owner' = sender
            /\ saved' = s
            /\ last' = [rec EXCEPT !.result = "ok"]
            /\ UNCHANGED <<stack, emitted, nested>>

\* faulty variant: on_update stores the metadata it is given, as on_install does
on_update_stores(sender, _name, _symbol, _decimals, _initialSupply, _treasurer, _treasury) ==
    /\ installed
    /\ stack = <<>>
    /\ sender = owner
    /\ Return(Call("on_update", sender),
              [Snapshot EXCEPT !.name = _name, !.symbol = _symbol, !.decimals = _decimals],
              <<>>)

on_update(sender, _name, _symbol, _decimals, _initialSupply, _treasurer, _treasury) ==
    /\ installed
    /\ stack = <<>>
    /\ sender = owner
    /\ Return(Call("on_update", sender), Snapshot, <<>>)

\* ------------------------------------------------------------ transfer engine
Entry(kind, _from, _to, _value, _data) ==
    [kind |-> kind, from |-> _from, to |-> _to, value |-> _value, data |-> _data]

\* faulty variant: the balance check lets one unit too many through
OutOfBalance_offbyone(b, _from, _value) == b[_from] + 1 < _value

\* the two checks of _transfer
NegativeValue(_value) == _value < 0

OutOfBalance(b, _from, _value) == b[_from] < _value

\* faulty variant: the source is not debited
Debit_skipped(b, _from, _value) == b

\* self._balances[_from] = self._balances[_from] - _value
Debit(b, _from, _value) == [b EXCEPT ![_from] = b[_from] - _value]

\* faulty variant: the credit is lost
Credit_lost(b, _to, _value) == b

\* faulty variant: the credit is computed from the balance read before the debit
Credit_from_stale_read(b, _to, _value) == [b EXCEPT ![_to] = balances[_to] + _value]

\* self._balances[_to] = self._balances[_to] + _value
Credit(b, _to, _value) == [b EXCEPT ![_to] = b[_to] + _value]

\* faulty variant: the Transfer event is emitted before the recipient is notified
_transfer_event_first(rec, _from, _to, _value, _data) ==
    IF NegativeValue(_value)
    THEN Revert(rec, "Transferring value cannot be less than zero")
    ELSE IF OutOfBalance(balances, _from, _value)
    THEN Revert(rec, "Out of balance")
    ELSE LET debited == Debit(balances, _from, _value)
             credited == Credit(debited, _to, _value)
         IN
         IF is_contract(_to)
         THEN /\ Len(stack) < MaxDepth
              /\ CountNested
              /\ balances' = credited
              /\ stack' = Append(stack, [rec |-> rec, from |-> _from, to |-> _to,
                                         value |-> _value, data |-> _data])
              /\ emitted' = <<Entry("Transfer", _from, _to, _value, _data)>>
              /\ last' = rec
              /\ UNCHANGED <<installed, owner, name, symbol, decimals, total_supply,
                             treasurer, treasury, saved>>
         ELSE Return(rec, [Snapshot EXCEPT !.balances = credited],
                     <<Entry("Transfer", _from, _to, _value, _data)>>)

_transfer(rec, _from, _to, _value, _data) ==
    IF NegativeValue(_value)
    THEN Revert(rec, "Transferring value cannot be less than zero")
    ELSE IF OutOfBalance(balances, _from, _value)
    THEN Revert(rec, "Out of balance")
    ELSE LET debited == Debit(balances, _from, _value)
             credited == Credit(debited, _to, _value)
         IN
         IF is_contract(_to)
         THEN \* control passes to the recipient's tokenFallback
              /\ Len(stack) < MaxDepth
              /\ CountNested
              /\ balances' = credited
              /\ stack' = Append(stack, [rec |-> rec, from |-> _from, to |-> _to,
                                         value |-> _value, data |-> _data])
              /\ emitted' = <<Entry("tokenFallback", _from, _to, _value, _data)>>
              /\ last' = rec
              /\ UNCHANGED <<installed, owner, name, symbol, decimals, total_supply,
                             treasurer, treasury, saved>>
         ELSE Return(rec, [Snapshot EXCEPT !.balances = credited],
                     <<Entry("Transfer", _from, _to, _value, _data)>>)

\* the recipient's tokenFallback returns: the waiting _transfer emits its event
tokenFallback_return ==
    /\ stack # <<>>
    /\ LET f == stack[Len(stack)]
           rest == SubSeq(stack, 1, Len(stack) - 1)
       IN
       /\ stack' = rest
       /\ emitted' = <<Entry("Transfer", f.from, f.to, f.value, f.data)>>
       /\ nested' = IF rest = <<>> THEN 0 ELSE nested
       /\ saved' = IF rest = <<>> THEN Snapshot ELSE saved
       /\ last' = [f.rec EXCEPT !.result = "ok"]
       /\ UNCHANGED <<installed, owner, name, symbol, decimals, total_supply,
                      balances, treasurer, treasury>>

\* faulty variant: _transfer swallows the failure of tokenFallback and goes on
tokenFallback_swallowed ==
    /\ stack # <<>>
    /\ stack' = SubSeq(stack, 1, Len(stack) - 1)
    /\ emitted' = <<>>
    /\ nested' = IF Len(stack) = 1 THEN 0 ELSE nested
    /\ saved' = IF Len(stack) = 1 THEN Snapshot ELSE saved
    /\ last' = [stack[Len(stack)].rec EXCEPT !.result = "tokenFallback failed"]
    /\ UNCHANGED <<installed, owner, name, symbol, decimals, total_supply,
                   balances, treasurer, treasury>>

\* faulty variant: on a failing tokenFallback only the failed transfer's own
\* debit and credit are reversed; what nested calls wrote stays
tokenFallback_undo_own ==
    /\ stack # <<>>
    /\ LET f == stack[Len(stack)]
       IN  /\ balances' = Credit(Debit(balances, f.to, f.value), f.from, f.value)
           /\ last' = [f.rec EXCEPT !.result = "tokenFallback failed"]
    /\ stack' = <<>>
    /\ emitted' = <<>>
    /\ nested' = 0
    /\ UNCHANGED <<installed, owner, name, symbol, decimals, total_supply,
                   treasurer, treasury>>
    /\ saved' = Snapshot'

\* the recipient's tokenFallback raises or reverts
tokenFallback_fail ==
    /\ stack # <<>>
    /\ Revert(stack[Len(stack)].rec, "tokenFallback failed")

\* faulty variant: the public transfer moves the caller's units, as plain IRC-2 does
transfer_enabled(sender, _to, _value, _data) ==
    /\ installed
    /\ _transfer(Call("transfer", sender), sender, _to, _value, "b'None'")

\* ------------------------------------------------------------ external methods
transfer(sender, _to, _value, _data) ==
    /\ installed
    /\ Revert(Call("transfer", sender), "is not transferable")

\* faulty variant: the owner passes the treasurer check as well
check_treasurer_or_owner(sender) == sender = treasurer \/ sender = owner

\* faulty variant: the treasurer given at installation keeps passing the check
check_treasurer_stale(sender) == sender = treasurer \/ sender = FirstTreasurer

_check_treasurer(sender) == sender = treasurer

\* faulty variant: withdrawals keep debiting the treasury given at installation
treasury_withdraw_first_treasury(sender, user_address, value) ==
    LET rec == Call("treasury_withdraw", sender)
    IN
    /\ installed
    /\ IF ~_check_treasurer(sender)
       THEN Revert(rec, "InvalidTreasurer")
       ELSE _transfer(rec, FirstTreasury, user_address, value, "b'None'")

treasury_withdraw(sender, user_address, value) ==
    LET rec == Call("treasury_withdraw", sender)
    IN
    /\ installed
    /\ IF ~_check_treasurer(sender)
       THEN Revert(rec, "InvalidTreasurer")
       ELSE _transfer(rec, treasury, user_address, value, "b'None'")

\* faulty variant: the deposit is credited to the treasurer, not to the treasury
treasury_deposit_to_treasurer(sender, address, value) ==
    LET rec == Call("treasury_deposit", sender)
    IN
    /\ installed
    /\ IF ~_check_treasurer(sender)
       THEN Revert(rec, "InvalidTreasurer")
       ELSE _transfer(rec, address, treasurer, value, "b'None'")

treasury_deposit(sender, address, value) ==
    LET rec == Call("treasury_deposit", sender)
    IN
    /\ installed
    /\ IF ~_check_treasurer(sender)
       THEN Revert(rec, "InvalidTreasurer")
       ELSE _transfer(rec, address, treasury, value, "b'None'")

\* the only_owner decorator of the checks module
only_owner(sender) == sender = owner

set_treasurer(sender, address) ==
    LET rec == Call("set_treasurer", sender)
    IN
    /\ installed
    /\ IF ~only_owner(sender)
       THEN Revert(rec, "SenderNotScoreOwnerError")
       ELSE Return(rec, [Snapshot EXCEPT !.treasurer = address], <<>>)

\* faulty variant: set_treasury without the owner check
set_treasury_open(sender, address) ==
    /\ installed
    /\ Return(Call("set_treasury", sender), [Snapshot EXCEPT !.treasury = address], <<>>)

set_treasury(sender, address) ==
    LET rec == Call("set_treasury", sender)
    IN
    /\ installed
    /\ IF ~only_owner(sender)
       THEN Revert(rec, "SenderNotScoreOwnerError")
       ELSE Return(rec, [Snapshot EXCEPT !.treasury = address], <<>>)

\* faulty variant: the operator's transfer is taken from the caller's own balance
operator_transfer_from_sender(sender, _from, _to, _value, _data) ==
    LET rec == Call("operator_transfer", sender)
    IN
    /\ installed
    /\ IF ~only_owner(sender)
       THEN Revert(rec, "SenderNotScoreOwnerError")
       ELSE _transfer(rec, sender, _to, _value, "b'None'")

operator_transfer(sender, _from, _to, _value, _data) ==
    LET rec == Call("operator_transfer", sender)
    IN
    /\ installed
    /\ IF ~only_owner(sender)
       THEN Revert(rec, "SenderNotScoreOwnerError")
       ELSE _transfer(rec, _from, _to, _value, "b'None'")

\* self._total_supply.set(self._total_supply.get() + amount)
MintSupply(supply, amount) == supply + amount

\* faulty variant: the minted amount is credited twice
MintBalance_twice(b, sender, amount) == [b EXCEPT ![sender] = b[sender] + 2 * amount]

\* self._balances[self.msg.sender] += amount
MintBalance(b, sender, amount) == [b EXCEPT ![sender] = b[sender] + amount]

mint(sender, amount) ==
    LET rec == Call("mint", sender)
    IN
    /\ installed
    /\ IF ~only_owner(sender)
       THEN Revert(rec, "SenderNotScoreOwnerError")
       ELSE /\ total_supply + amount <= MaxSupply
            /\ total_supply + amount >= 0 - MaxDebt
            /\ Return(rec, [Snapshot EXCEPT !.total_supply = MintSupply(total_supply, amount),
                                            !.balances = MintBalance(balances, sender, amount)],
                      <<>>)

\* ------------------------------------------------------------- specification
InitialSupplies == (0 - 1) .. MaxValue
DecimalsArgs == {0 - 1, 0, 22}
\* installations whose supply stays within MaxSupply, and the rejected ones
InstallArgs ==
    {p \in InitialSupplies \X DecimalsArgs :
        \/ p[1] <= 0
        \/ p[2] < 0
        \/ p[2] > 21
        \/ (p[2] <= 8 /\ Scale(p[1], p[2]) <= MaxSupply)}

\* the deployment explored by Spec: hx1 deploys, hx2 is the first treasurer and
\* the deployer's own account is the first treasury
Install ==
    \E sender \in Deployers, p \in InstallArgs :
        on_install(sender, "Spark", "SPK", p[2], p[1], FirstTreasurer, FirstTreasury)

Update ==
    \E n \in UpdateNames :
        on_update(owner, n, "SPK", 5, 1, owner, owner)

\* Arguments of a call by `sender`.  A call that fails its access check never
\* looks at its arguments, so one tuple of them stands for all: the steps are
\* the same ones.
ArgsOf(allowed, S) == IF allowed THEN S ELSE {CHOOSE x \in S : TRUE}

\* the external methods, called by anyone, and the moves of a running tokenFallback
Calls ==
    \/ \E sender \in Senders :
          \E t \in ArgsOf(FALSE, Address), v \in Values, d \in DataArgs :
             transfer(sender, t, v, d)
    \/ \E sender \in Senders :
          \E u \in ArgsOf(_check_treasurer(sender), Address),
             v \in ArgsOf(_check_treasurer(sender), Values) :
             treasury_withdraw(sender, u, v)
    \/ \E sender \in Senders :
          \E u \in ArgsOf(_check_treasurer(sender), Address),
             v \in ArgsOf(_check_treasurer(sender), Values) :
             treasury_deposit(sender, u, v)
    \/ \E sender \in Senders :
          \E a \in ArgsOf(only_owner(sender), Address) : set_treasurer(sender, a)
    \/ \E sender \in Senders :
          \E a \in ArgsOf(only_owner(sender), Address) : set_treasury(sender, a)
    \/ \E sender \in Senders :
          \E f \in ArgsOf(only_owner(sender), Address),
             t \in ArgsOf(only_owner(sender), Address),
             v \in ArgsOf(only_owner(sender), Values),
             d \in DataArgs :
             operator_transfer(sender, f, t, v, d)
    \/ \E sender \in Senders :
          \E v \in ArgsOf(only_owner(sender), Values) : mint(sender, v)
    \/ tokenFallback_return
    \/ tokenFallback_fail

Next ==
    \/ Install
    \/ Update
    \/ Calls

Spec == Init /\ [][Next]_vars

\* the same ledger deployed with the largest number of decimals the code
\* accepts (and an initial supply of 0, so that the supply stays within MaxSupply)
MetaDecimals == {0 - 1, 21, 22}

InstallMeta ==
    \E sender \in Deployers, d \in MetaDecimals :
        on_install(sender, "Spark", "SPK", d, 0, FirstTreasurer, FirstTreasury)

NextMeta ==
    \/ InstallMeta
    \/ Update
    \/ Calls

SpecMeta == Init /\ [][NextMeta]_vars

\* installation alone, over a wider range of arguments (the supply stays
\* within TLC's integers: a positive supply is scaled by at most 10^8)
WideDecimals == {0 - 2, 0 - 1, 0, 1, 2, 8, 20, 21, 22, 23}
WideInstallArgs ==
    {p \in InitialSupplies \X WideDecimals : p[1] <= 0 \/ p[2] <= 8}

InstallAny ==
    \E sender \in Address, p \in WideInstallArgs, t \in Address, x \in Address :
        on_install(sender, "Spark", "SPK", p[2], p[1], t, x)

SpecInstall == Init /\ [][InstallAny]_vars

\* ------------------------------------------------------------------ properties
RECURSIVE SumOver(_, _)
SumOver(b, S) ==
    IF S = {} THEN 0
    ELSE LET a == CHOOSE x \in S : TRUE IN b[a] + SumOver(b, S \ {a})

\* sum(balances.values())
SumBalances == SumOver(balances, Address)

\* the step runs a call (it is not the return or the failure of a tokenFallback
\* that completes an earlier call)
CallStep ==
    ~(/\ stack # <<>>
      /\ Len(stack') < Len(stack)
      /\ last'.result \in {"ok", "tokenFallback failed"})

\* the step is a call that failed with err: nothing of its transaction stays
Rejected(err) ==
    /\ last'.result = err
    /\ Snapshot' = saved
    /\ (stack = <<>> => UNCHANGED db)
    /\ stack' = <<>>
    /\ emitted' = <<>>

\* the call went through: it returned, or it waits for the recipient's tokenFallback
Accepted == last'.result \in {"ok", "pending"}

ValidationErrors ==
    {"Transferring value cannot be less than zero", "Out of balance"}

\* C1: in every reachable state, also while a tokenFallback runs, the balances
\* add up to the total supply.
C1_SumIsSupply == SumBalances = total_supply

\* C1 witness: units were minted and moved, and three accounts hold or held them
C1_Witness ==
    /\ installed
    /\ total_supply = MaxSupply
    /\ balances["hx2"] > 0
    /\ balances["cx1"] > 0
    /\ SumBalances = total_supply

\* C2 (as claimed): no account balance is ever negative.
C2_NoNegativeBalance == \A a \in Address : balances[a] >= 0

\* C3 (as claimed): the total supply is never negative, never decreases, and
\* changes only in a mint step.
C3_SupplyMonotone ==
    [][installed =>
        /\ total_supply' >= 0
        /\ total_supply' >= total_supply
        /\ (total_supply' # total_supply => last'.op = "mint")]_vars

\* C4: every call of the public transfer fails with the policy error and leaves
\* the balances, the supply, the treasurer and the treasury as they were.
C4_TransferDisabled ==
    [][last'.op = "transfer" => Rejected("is not transferable")]_vars

\* C4 witness: the owner, holding units, called transfer and was refused
C4_Witness ==
    /\ last.op = "transfer"
    /\ last.sender = owner
    /\ last.result = "is not transferable"
    /\ balances[owner] > 0

\* C5: treasury_withdraw and treasury_deposit by anyone but the treasurer fail
\* with InvalidTreasurer, whatever the value, and change nothing.
C5_NonTreasurerRejected ==
    [][(/\ last'.op \in {"treasury_withdraw", "treasury_deposit"}
        /\ last'.sender # treasurer
        /\ CallStep)
          => Rejected("InvalidTreasurer")]_vars

\* C5 witness: the owner, who is not the treasurer, was refused a deposit
C5_Witness ==
    /\ last.op = "treasury_deposit"
    /\ last.sender = owner
    /\ owner # treasurer
    /\ last.result = "InvalidTreasurer"
    /\ total_supply > 0

\* C6: mint(amount) by the owner adds amount to the supply and to the caller's
\* balance and touches nothing else; by anyone else it is rejected unchanged.
C6_Mint ==
    [][last'.op = "mint" =>
          \A v \in Values :
             mint(last'.sender, v) =>
                IF last'.sender = owner
                THEN /\ last'.result = "ok"
                     /\ total_supply' = total_supply + v
                     /\ balances'[owner] = balances[owner] + v
                     /\ \A a \in Address \ {owner} : balances'[a] = balances[a]
                     /\ UNCHANGED <<treasurer, treasury, name, symbol, decimals>>
                ELSE Rejected("SenderNotScoreOwnerError")]_vars

\* C6 witness: the owner minted a positive amount on top of an existing balance
C6_Witness ==
    /\ last.op = "mint"
    /\ last.sender = owner
    /\ last.result = "ok"
    /\ balances[owner] = 1
    /\ total_supply = 2

\* C7: a treasury_withdraw or treasury_deposit by the treasurer or an
\* operator_transfer by the owner either goes through or ends in a validation
\* error; it goes through only with a value from 0 up to the source's balance,
\* so a negative value or one above that balance ends in a validation error;
\* and a validation error changes nothing, notifies nobody and emits no event.
EngineOps == {"treasury_withdraw", "treasury_deposit", "operator_transfer"}

Authorised ==
    IF last'.op = "operator_transfer"
    THEN last'.sender = owner
    ELSE last'.sender = treasurer

C7_InvalidValueRejected ==
    [][(last'.op \in EngineOps /\ CallStep) =>
          /\ Authorised => (Accepted \/ last'.result \in ValidationErrors)
          /\ Accepted =>
                LET e == emitted'[1]
                IN  /\ e.value >= 0
                    /\ e.value <= balances[e.from]
                    /\ last'.op = "treasury_withdraw" => e.from = treasury
                    /\ last'.op = "treasury_deposit" => e.to = treasury
          /\ last'.result \in ValidationErrors => Rejected(last'.result)]_vars

\* C7 witness: the treasurer asked for more than the treasury holds
C7_Witness ==
    /\ last.op = "treasury_withdraw"
    /\ last.sender = treasurer
    /\ last.result = "Out of balance"
    /\ balances[treasury] > 0
    /\ stack = <<>>
    /\ emitted = <<>>

\* C8: when the recipient's tokenFallback fails the whole operation fails: the
\* database is again what it was before the outermost call and neither the
\* failing step nor any later one emits the Transfer event of a transfer that
\* waited; and a step never credits a SCORE without handing control to its
\* tokenFallback in that same step, so no later operation sees a credit that
\* was not notified.
CreditsContract ==
    \E c \in Contracts : CallStep /\ Accepted /\ balances'[c] > balances[c]

C8_FallbackFailureUndoesAll ==
    [][/\ (stack = <<>> /\ stack' # <<>>) => saved' = Snapshot
       /\ (stack # <<>> /\ stack' # <<>>) => saved' = saved
       /\ (last'.result = "tokenFallback failed") =>
             (Snapshot' = saved /\ stack' = <<>> /\ emitted' = <<>>)
       /\ (stack' = <<>>) => saved' = Snapshot'
       /\ CreditsContract =>
             /\ Len(stack') = Len(stack) + 1
             /\ LET f == stack'[Len(stack')]
                IN /\ is_contract(f.to)
                   /\ emitted' = <<Entry("tokenFallback", f.from, f.to, f.value, f.data)>>
             /\ last'.result = "pending"]_vars

\* C8 witness: a withdrawal to the SCORE was undone by its failing tokenFallback
C8_Witness ==
    /\ last.op = "treasury_withdraw"
    /\ last.result = "tokenFallback failed"
    /\ treasury # "cx1"
    /\ balances[treasury] > 0
    /\ balances["cx1"] = 0
    /\ emitted = <<>>
    /\ stack = <<>>

\* C9: set_treasurer by the owner stores the address it is given, and from
\* then on a treasury_withdraw or treasury_deposit is refused with
\* InvalidTreasurer exactly when its caller is not the treasurer now stored:
\* the replaced treasurer is refused and the new one passes the gate.
C9_TreasurerGate ==
    [][/\ (last'.op \in {"treasury_withdraw", "treasury_deposit"} /\ CallStep) =>
             (last'.result = "InvalidTreasurer" <=> last'.sender # treasurer)
       /\ last'.op = "set_treasurer" =>
             \A a \in Address :
                set_treasurer(last'.sender, a) =>
                   IF last'.sender = owner
                   THEN treasurer' = a /\ last'.result = "ok"
                   ELSE Rejected("SenderNotScoreOwnerError")]_vars

\* C9 witness: the first treasurer, since replaced, was refused a withdrawal
C9_Witness ==
    /\ last.op = "treasury_withdraw"
    /\ last.sender = FirstTreasurer
    /\ treasurer # FirstTreasurer
    /\ last.result = "InvalidTreasurer"
    /\ balances[treasury] > 0

\* C10: installation with initialSupply >= 0 and 0 <= decimals <= 21 sets the
\* supply to initialSupply * 10^decimals, gives it all to the installer and
\* stores the treasurer and the treasury; any other installation aborts and
\* sets nothing.
Times10(s, d) == IF s = 0 THEN 0 ELSE s * (10 ^ d)

InstallErrors ==
    {"Initial supply cannot be less than zero", "Decimals cannot be less than zero",
     "Decimals cannot be more than 21"}

C10_Install ==
    [][last'.op = "on_install" =>
          \A p \in WideInstallArgs, t \in Address, x \in Address :
             on_install(last'.sender, "Spark", "SPK", p[2], p[1], t, x) =>
                IF p[1] >= 0 /\ p[2] >= 0 /\ p[2] <= 21
                THEN /\ installed'
                     /\ last'.result = "ok"
                     /\ total_supply' = Times10(p[1], p[2])
                     /\ balances' = [a \in Address |->
                                       IF a = last'.sender THEN total_supply' ELSE 0]
                     /\ treasurer' = t
                     /\ treasury' = x
                     /\ decimals' = p[2]
                ELSE /\ ~installed'
                     /\ last'.result \in InstallErrors
                     /\ UNCHANGED <<db, owner, stack, emitted, nested, saved>>]_vars

\* C10 witness: the installation of the scenario, scaled down to one unit:
\* decimals 2 and initial supply 1 give the installer 100
C10_Witness ==
    /\ installed
    /\ last.op = "on_install"
    /\ decimals = 2
    /\ total_supply = 100
    /\ balances[owner] = 100
    /\ treasurer = "hx2"
    /\ treasury = "cx1"

\* C11: treasury_withdraw(user, value) by the treasurer with 0 <= value <=
\* balances[treasury] and user other than the treasury takes exactly value from
\* the treasury, gives exactly value to user, leaves every other balance and the
\* supply as they were, and emits one Transfer(treasury, user, value, _): at
\* once for a plain account, and for a SCORE when its tokenFallback returns.
MovedExactly(_from, _to, _value) ==
    /\ balances'[_from] = balances[_from] - _value
    /\ balances'[_to] = balances[_to] + _value
    /\ \A a \in Address \ {_from, _to} : balances'[a] = balances[a]
    /\ total_supply' = total_supply

\* the step's outcome for an accepted transfer: the event, or the pending
\* notification that will be followed by it
EventOrPending(_from, _to, _value) ==
    IF is_contract(_to)
    THEN /\ last'.result = "pending"
         /\ stack' = Append(stack, [rec |-> last', from |-> _from, to |-> _to,
                                    value |-> _value, data |-> emitted'[1].data])
    ELSE /\ last'.result = "ok"
         /\ Len(emitted') = 1
         /\ emitted'[1].kind = "Transfer"
         /\ emitted'[1].from = _from
         /\ emitted'[1].to = _to
         /\ emitted'[1].value = _value

\* a tokenFallback returned: the waiting transfer emits its one event and no balance moves
Completes ==
    /\ stack # <<>>
    /\ Len(stack') < Len(stack)
    /\ last'.result = "ok"

EventOfFrame ==
    LET f == stack[Len(stack)]
    IN  /\ emitted' = <<Entry("Transfer", f.from, f.to, f.value, f.data)>>
        /\ UNCHANGED db

\* a withdrawal of a valid value by the treasurer cannot end in an error
WithdrawGoesThrough ==
    installed =>
       ~ENABLED (\E u \in Address \ {treasury}, v \in 0 .. MaxValue :
                    /\ v <= balances[treasury]
                    /\ treasury_withdraw(treasurer, u, v)
                    /\ ~Accepted)

C11_Withdraw ==
    /\ []WithdrawGoesThrough
    /\ [][/\ (last'.op = "treasury_withdraw" /\ CallStep /\ Accepted) =>
                LET e == emitted'[1]
                IN  /\ treasury_withdraw(last'.sender, e.to, e.value)
                    /\ last'.sender = treasurer
                    /\ e.from = treasury
                    /\ e.to # treasury =>
                          /\ MovedExactly(treasury, e.to, e.value)
                          /\ EventOrPending(treasury, e.to, e.value)
          /\ (last'.op = "treasury_withdraw" /\ Completes) => EventOfFrame]_vars

\* C11 witness: the treasurer withdrew one unit to a plain account, the event is out
C11_Witness ==
    /\ last.op = "treasury_withdraw"
    /\ last.result = "ok"
    /\ Len(emitted) = 1
    /\ emitted[1].kind = "Transfer"
    /\ emitted[1].from = treasury
    /\ emitted[1].to = "hx2"
    /\ emitted[1].value = 1
    /\ balances["hx2"] = 1
    /\ treasury # "hx2"

\* C12: treasury_deposit(user, value) by the treasurer with 0 <= value <=
\* balances[user] moves exactly value from user to the treasury, and a call
\* that goes through for a treasurer who is not the owner never changes the
\* balances of two accounts neither of which is the treasury; a call of such a
\* treasurer that fails moves nothing of its own: its transaction is undone.
TwoChangedInvolveTreasury ==
    \A a \in Address, b \in Address :
        (a # b /\ balances'[a] # balances[a] /\ balances'[b] # balances[b])
            => (a = treasury \/ b = treasury)

\* a deposit of a valid value by the treasurer cannot end in an error
DepositGoesThrough ==
    installed =>
       ~ENABLED (\E u \in Address \ {treasury}, v \in 0 .. MaxValue :
                    /\ v <= balances[u]
                    /\ treasury_deposit(treasurer, u, v)
                    /\ ~Accepted)

C12_TreasuryOnly ==
    /\ []DepositGoesThrough
    /\ [][/\ (last'.op = "treasury_deposit" /\ CallStep /\ Accepted) =>
                LET e == emitted'[1]
                IN  /\ treasury_deposit(last'.sender, e.from, e.value)
                    /\ last'.sender = treasurer
                    /\ e.to = treasury
                    /\ e.from # treasury =>
                          /\ MovedExactly(e.from, treasury, e.value)
                          /\ EventOrPending(e.from, treasury, e.value)
          /\ (CallStep /\ last'.sender = treasurer /\ last'.sender # owner) =>
                IF Accepted
                THEN /\ TwoChangedInvolveTreasury
                     /\ UNCHANGED <<total_supply, treasurer, treasury>>
                     /\ last'.op \in {"treasury_withdraw", "treasury_deposit"}
                ELSE Snapshot' = saved]_vars

\* C12 witness: the treasurer, who is not the owner, deposited a unit of a third account
C12_Witness ==
    /\ last.op = "treasury_deposit"
    /\ last.result = "ok"
    /\ last.sender = treasurer
    /\ last.sender # owner
    /\ Len(emitted) = 1
    /\ emitted[1].kind = "Transfer"
    /\ emitted[1].from = "cx1"
    /\ emitted[1].to = treasury
    /\ emitted[1].value = 1
    /\ treasurer # "cx1"
    /\ treasury # "cx1"

\* C13: after installation the treasurer and the treasury change only in a
\* set_treasurer (resp. set_treasury) call of the owner that returns;
\* set_treasurer, set_treasury, operator_transfer and mint called by anyone
\* else, the treasurer included, are rejected with nothing changed.
OwnerGated == {"set_treasurer", "set_treasury", "operator_transfer", "mint"}

OwnerSet(op) ==
    /\ last'.op = op
    /\ last'.sender = owner
    /\ last'.result = "ok"
    /\ CallStep

C13_OnlyOwnerReassigns ==
    [][installed =>
          /\ treasurer' # treasurer => OwnerSet("set_treasurer")
          /\ treasury' # treasury => OwnerSet("set_treasury")
          /\ (last'.op \in OwnerGated /\ last'.sender # owner /\ CallStep) =>
                Rejected("SenderNotScoreOwnerError")]_vars

\* C13 witness: the treasurer, not being the owner, was refused set_treasury
C13_Witness ==
    /\ last.op = "set_treasury"
    /\ last.sender = treasurer
    /\ last.sender # owner
    /\ last.result = "SenderNotScoreOwnerError"
    /\ treasury = FirstTreasury
    /\ total_supply > 0

\* C14: operator_transfer(from, to, value, data) by the owner with 0 <= value <=
\* balances[from] goes through for any two different accounts and moves exactly
\* value from from to to; every other balance, the supply, the treasurer and
\* the treasury stay as they were.
\* a transfer of a valid value by the owner cannot end in an error
OperatorGoesThrough ==
    installed =>
       ~ENABLED (\E f \in Address, t \in Address, v \in 0 .. MaxValue, d \in DataArgs :
                    /\ f # t
                    /\ v <= balances[f]
                    /\ operator_transfer(owner, f, t, v, d)
                    /\ ~Accepted)

C14_OperatorTransfer ==
    /\ []OperatorGoesThrough
    /\ [][(last'.op = "operator_transfer" /\ CallStep /\ Accepted) =>
             LET e == emitted'[1]
             IN  /\ \E d \in DataArgs :
                        operator_transfer(last'.sender, e.from, e.to, e.value, d)
                 /\ last'.sender = owner
                 /\ e.from # e.to =>
                       /\ MovedExactly(e.from, e.to, e.value)
                       /\ EventOrPending(e.from, e.to, e.value)
                       /\ UNCHANGED <<treasurer, treasury, name, symbol, decimals>>]_vars

\* C14 witness: the owner moved a unit between two accounts that are neither
\* the owner nor the treasurer nor the treasury
C14_Witness ==
    /\ last.op = "operator_transfer"
    /\ last.sender = owner
    /\ last.result = "ok"
    /\ Len(emitted) = 1
    /\ emitted[1].kind = "Transfer"
    /\ emitted[1].value = 1
    /\ {emitted[1].from, emitted[1].to} \cap {owner, treasurer, treasury} = {}
    /\ emitted[1].from # emitted[1].to

\* C15 (as claimed): the Transfer event, or the tokenFallback notification, of
\* an operator_transfer(from, to, value, data) that goes through carries the
\* data argument its caller supplied.
C15_EventCarriesData ==
    [][(last'.op = "operator_transfer" /\ CallStep /\ Accepted) =>
          LET e == emitted'[1]
          IN  \A d \in DataArgs :
                 operator_transfer(last'.sender, e.from, e.to, e.value, d) =>
                    e.data = d]_vars

\* C16: name, symbol and decimals are written by the installation and by no
\* later step, whatever the operation (on_update, mint, the transfers, the role
\* setters, a failed call); and the decimals stored are always within 0 .. 21.
Metadata == <<name, symbol, decimals>>

C16_MetadataFixed ==
    /\ [](decimals \in 0 .. 21)
    /\ [][Metadata' # Metadata =>
             (~installed /\ installed' /\ last'.op = "on_install")]_vars

\* C16 witness: a ledger installed with 21 decimals, minted on, then updated
C16_Witness ==
    /\ installed
    /\ last.op = "on_update"
    /\ decimals = 21
    /\ name = "Spark"
    /\ symbol = "SPK"
    /\ total_supply > 0
    /\ treasury # FirstTreasury

\* C17: a transfer that passes validation writes the debit and the credit and
\* then, in the same step, either emits its one Transfer event (plain
\* recipient, no notification) or hands control to tokenFallback of the
\* recipient SCORE, once, with no event yet; the one Transfer event of a
\* notified transfer is emitted by the step in which tokenFallback returns, and
\* never when it fails.  No other step notifies or emits.
BalancesAfter(_from, _to, _value) ==
    IF _from = _to
    THEN balances' = balances
    ELSE MovedExactly(_from, _to, _value)

C17_TransferOrder ==
    [][/\ Len(emitted') <= 1
       /\ (last'.op \in EngineOps /\ CallStep /\ Accepted) =>
             /\ Len(emitted') = 1
             /\ LET e == emitted'[1]
                IN  /\ e.value >= 0
                    /\ e.value <= balances[e.from]
                    /\ BalancesAfter(e.from, e.to, e.value)
                    /\ e.kind = IF is_contract(e.to) THEN "tokenFallback" ELSE "Transfer"
                    /\ last'.result = IF is_contract(e.to) THEN "pending" ELSE "ok"
                    /\ stack' = IF is_contract(e.to)
                                THEN Append(stack, [rec |-> last', from |-> e.from,
                                                    to |-> e.to, value |-> e.value,
                                                    data |-> e.data])
                                ELSE stack
       /\ Completes => (EventOfFrame /\ is_contract(stack[Len(stack)].to))
       /\ last'.result = "tokenFallback failed" => emitted' = <<>>
       /\ (emitted' # <<>> /\ emitted'[1].kind = "Transfer") =>
             \/ Completes
             \/ (last'.op \in EngineOps /\ CallStep /\ last'.result = "ok")
       /\ (emitted' # <<>> /\ emitted'[1].kind = "tokenFallback") =>
             (last'.op \in EngineOps /\ CallStep /\ last'.result = "pending")
       /\ (emitted' # <<>>) => emitted'[1].kind \in {"Transfer", "tokenFallback"}]_vars

\* C17 witness: tokenFallback of the recipient SCORE is running; the unit it is
\* told about is already on its balance, and no Transfer event is out
C17_Witness ==
    /\ stack # <<>>
    /\ last.result = "pending"
    /\ emitted = <<Entry("tokenFallback", stack[1].from, "cx1", 1, stack[1].data)>>
    /\ balances["cx1"] = saved.balances["cx1"] + 1
    /\ balances[stack[1].from] = saved.balances[stack[1].from] - 1

\* C18: a transfer from an account to itself - operator_transfer(a, a, v) by
\* the owner, treasury_withdraw(treasury, v) or treasury_deposit(treasury, v)
\* by the treasurer - with 0 <= v <= balances[a] cannot end in an error, and
\* leaves every balance and the supply as they were.
SelfTransferGoesThrough ==
    installed =>
       ~ENABLED (\E v \in 0 .. MaxValue :
                    \/ \E a \in Address, d \in DataArgs :
                          /\ v <= balances[a]
                          /\ operator_transfer(owner, a, a, v, d)
                          /\ ~Accepted
                    \/ /\ v <= balances[treasury]
                       /\ treasury_withdraw(treasurer, treasury, v)
                       /\ ~Accepted
                    \/ /\ v <= balances[treasury]
                       /\ treasury_deposit(treasurer, treasury, v)
                       /\ ~Accepted)

C18_SelfTransfer ==
    /\ []SelfTransferGoesThrough
    /\ [][(last'.op \in EngineOps /\ CallStep /\ Accepted) =>
             LET e == emitted'[1]
             IN  e.from = e.to =>
                    /\ balances' = balances
                    /\ total_supply' = total_supply
                    /\ e.value <= balances[e.from]
                    /\ EventOrPending(e.from, e.to, e.value)]_vars

\* C18 witness: the owner transferred a unit of the treasury account to itself
C18_Witness ==
    /\ last.op = "operator_transfer"
    /\ last.result = "ok"
    /\ Len(emitted) = 1
    /\ emitted[1].kind = "Transfer"
    /\ emitted[1].from = emitted[1].to
    /\ emitted[1].from = treasury
    /\ emitted[1].value = 1
    /\ balances[treasury] = 1
    /\ total_supply = 2

\* C19: while a tokenFallback runs, the balances it can read already hold the
\* debit and the credit of the transfer it is told about and add up to the
\* supply; a call it makes back into the ledger keeps the sum and makes no
\* balance negative; when the outermost call completes, the sum holds, balances
\* are non-negative if they were before the transaction, and the result is
\* committed; and when anything fails while a tokenFallback runs, the database
\* is again the one from before the transaction, nested changes included.
NonNegative(b) == \A a \in Address : b[a] >= 0

FrameApplied ==
    stack # <<>> =>
       /\ SumBalances = total_supply
       /\ SumOver(saved.balances, Address) = saved.total_supply
       /\ NonNegative(saved.balances) => NonNegative(balances)

C20_SetTreasuryFrame ==
    [][/\ (last'.op = "set_treasury" /\ last'.result = "ok") =>
             /\ \E a \in Address :
                   set_treasury(last'.sender, a) /\ treasury' = a
             /\ UNCHANGED <<balances, total_supply, treasurer, name, symbol, decimals>>
             /\ emitted' = <<>>
       /\ (last'.op = "set_treasurer" /\ last'.result = "ok") =>
             /\ \E a \in Address :
                   set_treasurer(last'.sender, a) /\ treasurer' = a
             /\ UNCHANGED <<balances, total_supply, treasury, name, symbol, decimals>>
             /\ emitted' = <<>>
       /\ (last'.op = "treasury_withdraw" /\ CallStep /\ Accepted) =>
             /\ emitted'[1].from = treasury
             /\ BalancesAfter(treasury, emitted'[1].to, emitted'[1].value)
             /\ UNCHANGED <<treasury, treasurer, total_supply>>
       /\ (last'.op = "treasury_deposit" /\ CallStep /\ Accepted) =>
             /\ emitted'[1].to = treasury
             /\ BalancesAfter(emitted'[1].from, treasury, emitted'[1].value)
             /\ UNCHANGED <<treasury, treasurer, total_supply>>]_vars

\* C20 witness: after the owner moved the treasury elsewhere, a withdrawal took
\* its unit from the new treasury, while the first treasury kept its balance
C20_Witness ==
    /\ last.op = "treasury_withdraw"
    /\ last.result = "ok"
    /\ treasury # FirstTreasury
    /\ Len(emitted) = 1
    /\ emitted[1].from = treasury
    /\ emitted[1].to # FirstTreasury
    /\ emitted[1].to # treasury
    /\ emitted[1].value = 1
    /\ balances[FirstTreasury] = 1
    /\ total_supply = 2

====
